---- MODULE Spec2Model ----
(***************************************************************************)
(* Model of src/main.py: the upload endpoint with its inline operation     *)
(* poller, the wait_for_operation helper, and the query endpoint with its  *)
(* retry loop and error classifier.                                        *)
(*                                                                         *)
(* Texts are sequences of one-character strings, so that the substring     *)
(* tests and str.lower() of the classifier are computed, not assumed.      *)
(***************************************************************************)
EXTENDS Integers, Sequences, FiniteSets, TLC

(* ------------------------------ bounds -------------------------------- *)

\* request identifiers available to a run
MaxRequests == 2
\* padding characters put before and after an error token
MaxPad == 1
\* number of distinct answer texts the backend may return
NumAnswers == 2
\* how far beyond the poll budget the backend may first report done
PollSlack == 2
\* longest bare store identifier a request may carry
MaxStoreIdLen == 1
\* longest grounding_chunks list of a raw candidate
MaxChunks == 2
\* longest grounding_supports list of a raw candidate
MaxSupports == 2

(* ------------------------- program constants -------------------------- *)

\* upload_file: max_attempts = 60
max_attempts == 60
\* wait_for_operation: max_attempts = 60
helper_max_attempts == 60
\* asyncio.sleep(5) in the poll loops
poll_interval == 5
\* line 229 with the mutation: one attempt more
max_retries_OneMore == 3 + 1

\* query_documents: max_retries = 3
max_retries == 3
\* query_documents: retry_delay = 2
initial_retry_delay == 2
\* retry_delay *= 2
backoff_multiplier == 2

(* ------------------------------- texts -------------------------------- *)

UpperChars ==
  <<"A","B","C","D","E","F","G","H","I","J","K","L","M",
    "N","O","P","Q","R","S","T","U","V","W","X","Y","Z">>

LowerChars ==
  <<"a","b","c","d","e","f","g","h","i","j","k","l","m",
    "n","o","p","q","r","s","t","u","v","w","x","y","z">>

\* str.lower() on one character
LowerChar(c) ==
  IF \E i \in 1..Len(UpperChars) : UpperChars[i] = c
  THEN LowerChars[CHOOSE i \in 1..Len(UpperChars) : UpperChars[i] = c]
  ELSE c

\* str.lower()
Lower(s) == [i \in 1..Len(s) |-> LowerChar(s[i])]

\* Python's  sub in s  for strings
Contains(sub, s) ==
  \E i \in 1..(Len(s) - Len(sub) + 1) : SubSeq(s, i, i + Len(sub) - 1) = sub

Tok503 == <<"5","0","3">>
TokUNAVAILABLE == <<"U","N","A","V","A","I","L","A","B","L","E">>
TokOverloaded == <<"o","v","e","r","l","o","a","d","e","d">>

\* line 320 with the mutation: "UNAVAILABLE" no longer recognised
IsOverload_NoUnavailable(error_str) ==
  \/ Contains(Tok503, error_str)
  \/ Contains(TokOverloaded, Lower(error_str))

\* line 320 with the mutation: every test made case-insensitive
IsOverload_AnyCase(error_str) ==
  \/ Contains(Tok503, error_str)
  \/ Contains(Lower(TokUNAVAILABLE), Lower(error_str))
  \/ Contains(TokOverloaded, Lower(error_str))

\* line 320: "503" in error_str or "UNAVAILABLE" in error_str
\*           or "overloaded" in error_str.lower()
IsOverload(error_str) ==
  \/ Contains(Tok503, error_str)
  \/ Contains(TokUNAVAILABLE, error_str)
  \/ Contains(TokOverloaded, Lower(error_str))

(* --------------------------- backend inputs --------------------------- *)

\* tokens an error text of the backend is built around
ErrorTokens ==
  { Tok503, TokUNAVAILABLE, TokOverloaded,
    <<"u","n","a","v","a","i","l","a","b","l","e">>,
    <<"U","n","a","v","a","i","l","a","b","l","e">>,
    <<"O","V","E","R","L","O","A","D","E","D">>,
    <<"O","v","e","r","l","o","a","d","e","d">>,
    <<"U","N","A","V","A","I","L","A","B","L">>,
    <<"o","v","e","r","l","o","a","d">>,
    <<"5","0","0">>,
    <<"5","0">>,
    <<"I","N","T","E","R","N","A","L">> }

Pads == { [i \in 1..n |-> "x"] : n \in 0..MaxPad }

\* str(e) of the exceptions client.models.generate_content may raise
ErrorTexts == { p \o t \o q : p \in Pads, t \in ErrorTokens, q \in Pads }

\* response.text of the answers the backend may return (the empty text included)
AnswerTexts == { [i \in 1..n |-> "t"] : n \in 0..(NumAnswers - 1) }

\* str(e) of the TypeError raised by  None[:100]
NoneTypeMsg ==
  <<"'","N","o","n","e","T","y","p","e","'"," ","o","b","j","e","c","t"," ","i","s"," ","n","o","t"," ","s","u","b","s","c","r","i","p","t","a","b","l","e">>

(* ------------------------------- state -------------------------------- *)

VARIABLES
  live,         \* the requests this run serves
  running,      \* the request inside a synchronous backend call (0: none)
  kind,         \* the handler each request runs
  pc,           \* the position of each request in its handler
  attempt,      \* the local  attempt  of the poll loop or of the retry loop
  retry_delay,  \* the local  retry_delay  of query_documents
  error_str,    \* the local  error_str  of query_documents
  operation,    \* the local  operation  of upload_file / wait_for_operation
  tmp_exists,   \* whether the request's temporary file exists on disk
  doneIndex,    \* backend: index of the first status fetch that reports done
  metadata,     \* the metadata form field of an upload
  calls,        \* generate_content calls started by the request
  fetches,      \* client.operations.get calls started by the request
  submits,      \* upload_to_file_search_store calls started by the request
  sleeps,       \* the asyncio.sleep durations of the request, in order
  response,     \* the local  response  of query_documents
  hist,         \* outcome of each generate_content call, in order
  cause,        \* what ended the request
  resp,         \* the response (or exception) the request ended with
  candidates,   \* response.candidates handed to the citation extraction
  grounding_metadata,  \* the local  grounding_metadata  of query_documents
  norm_pc,      \* the position of the citation extraction
  store_name,   \* the store identifier each request carries
  backend_store \* the store name the request gave the backend (None: none yet)

vars ==
  <<live, running, kind, pc, attempt, retry_delay, error_str, operation,
    tmp_exists, doneIndex, metadata, calls, fetches, submits, sleeps,
    response, hist, cause, resp, candidates, grounding_metadata, norm_pc,
    store_name, backend_store>>

Requests == 1..MaxRequests

NoResp == [status |-> 0, success |-> FALSE, body |-> <<>>, exc |-> "pending"]

\* HTTPException(status_code=status, detail=detail)
HTTPException(status, detail) ==
  [status |-> status, success |-> FALSE, body |-> detail, exc |-> "HTTPException"]

\* an exception that is not an HTTPException
OtherException(type, text) ==
  [status |-> 0, success |-> FALSE, body |-> text, exc |-> type]

(* -------------------------------- Init -------------------------------- *)

\* Python's None, and a value that is not None
None == <<>>

Some(v) == <<v>>

\* the request variables before any request of the set L has started
RequestInit(L) ==
  /\ live = L
  /\ running = 0
  /\ kind = [r \in Requests |-> "none"]
  /\ pc = [r \in Requests |-> "idle"]
  /\ attempt = [r \in Requests |-> 0]
  /\ retry_delay = [r \in Requests |-> 0]
  /\ error_str = [r \in Requests |-> <<>>]
  /\ operation = [r \in Requests |-> [done |-> FALSE]]
  /\ tmp_exists = [r \in Requests |-> FALSE]
  /\ doneIndex = [r \in Requests |-> 0]
  /\ metadata = [r \in Requests |-> "absent"]
  /\ calls = [r \in Requests |-> 0]
  /\ fetches = [r \in Requests |-> 0]
  /\ submits = [r \in Requests |-> 0]
  /\ sleeps = [r \in Requests |-> <<>>]
  /\ response = [r \in Requests |-> [has_text |-> FALSE, text |-> <<>>]]
  /\ hist = [r \in Requests |-> <<>>]
  /\ cause = [r \in Requests |-> "none"]
  /\ resp = [r \in Requests |-> NoResp]
  /\ backend_store = [r \in Requests |-> None]

\* the citation extraction is not under way
NormIdle ==
  /\ candidates = None
  /\ grounding_metadata = None
  /\ norm_pc = "idle"

\* the prefix of the store namespace
StorePrefix ==
  <<"f","i","l","e","S","e","a","r","c","h","S","t","o","r","e","s","/">>

\* every request carries the bare store identifier "s"
StoreDefault == store_name = [r \in Requests |-> <<"s">>]

\* the state before any request of the set L has started
InitWith(L) == RequestInit(L) /\ NormIdle /\ StoreDefault

Init == InitWith({1})

\* the request r ends with response (or exception) x, for the reason why
Finish(r, x, why) ==
  /\ pc' = [pc EXCEPT ![r] = "done"]
  /\ resp' = [resp EXCEPT ![r] = x]
  /\ cause' = [cause EXCEPT ![r] = why]

\* the request r goes on at position p
Goto(r, p) ==
  /\ pc' = [pc EXCEPT ![r] = p]
  /\ UNCHANGED <<resp, cause>>

(* --------------------------- query_documents -------------------------- *)

OverloadedDetail ==
  <<"The AI model is currently overloaded. Please try again in a few moments.">>

\* line 321 with the mutation: the last attempt sleeps and continues too
CanRetry_Always(a) == a < max_retries

\* line 321 with the mutation: <= in place of <
CanRetry_AtMost(a) == a <= max_retries - 1

\* line 321: if attempt < max_retries - 1
CanRetry(a) == a < max_retries - 1

\* line 325 with the mutation: the delay is not doubled
NextDelay_Same(d) == d

\* line 325 with the mutation: linear backoff
NextDelay_AddTwo(d) == d + 2

\* line 325: retry_delay *= 2
NextDelay(d) == d * backoff_multiplier

\* line 232: for attempt in range(max_retries), entered with the value a;
\* line 338 when the range is exhausted
QueryLoopHead(r, a) ==
  IF a < max_retries
  THEN /\ attempt' = [attempt EXCEPT ![r] = a]
       /\ Goto(r, "call")
  ELSE /\ UNCHANGED attempt
       /\ Finish(r, HTTPException(500, <<"Query failed after multiple retries">>),
                 "fallback")

\* lines 227-232: the request arrives, the locals are set, the loop is entered
QueryStart(r) ==
  /\ r \in live
  /\ running = 0
  /\ kind[r] = "none"
  /\ kind' = [kind EXCEPT ![r] = "query"]
  /\ retry_delay' = [retry_delay EXCEPT ![r] = initial_retry_delay]
  /\ QueryLoopHead(r, 0)
  /\ UNCHANGED <<store_name, backend_store, candidates, grounding_metadata, norm_pc, live, running, error_str, operation, tmp_exists, doneIndex,
                 metadata, calls, fetches, submits, sleeps, response, hist>>

\* lines 233-256: the synchronous call client.models.generate_content starts
QueryCall(r) ==
  /\ running = 0
  /\ kind[r] = "query"
  /\ pc[r] = "call"
  /\ running' = r
  /\ calls' = [calls EXCEPT ![r] = @ + 1]
  \* line 241: file_search_store_names=[request.store_name]
  /\ backend_store' = [backend_store EXCEPT ![r] = Some(store_name[r])]
  /\ Goto(r, "in_call")
  /\ UNCHANGED <<store_name, candidates, grounding_metadata, norm_pc, live, kind, attempt, retry_delay, error_str, operation,
                 tmp_exists, doneIndex, metadata, fetches, submits, sleeps, response, hist>>

\* lines 315-335: the except branch, with str(e) = e
QueryExcept(r, e) ==
  /\ error_str' = [error_str EXCEPT ![r] = e]
  /\ IF IsOverload(e)
     THEN /\ hist' = [hist EXCEPT ![r] = Append(@, "overload")]
          /\ IF CanRetry(attempt[r])
             THEN \* line 324: await asyncio.sleep(retry_delay)
                  /\ sleeps' = [sleeps EXCEPT ![r] = Append(@, retry_delay[r])]
                  /\ Goto(r, "sleep")
             ELSE /\ UNCHANGED sleeps
                  /\ Finish(r, HTTPException(503, OverloadedDetail), "overloaded")
     ELSE /\ hist' = [hist EXCEPT ![r] = Append(@, "other")]
          /\ UNCHANGED sleeps
          /\ Finish(r, HTTPException(500, <<"Query failed: ">> \o e), "generic")

\* lines 308-313: the response built from the backend's response x
QueryResult(x) ==
  [status |-> 200, success |-> TRUE, body |-> x.text, exc |-> "none"]

\* lines 258-313: the call returned a response that has a text
QueryAnswer(r) ==
  /\ hist' = [hist EXCEPT ![r] = Append(@, "answer")]
  /\ UNCHANGED <<error_str, sleeps>>
  /\ Finish(r, QueryResult(response'[r]), "success")

\* lines 252-335: the call returns or raises, and the handler runs up to its
\* next suspension point
QueryReturn(r) ==
  /\ running = r
  /\ kind[r] = "query"
  /\ pc[r] = "in_call"
  /\ running' = 0
  /\ \/ \E t \in AnswerTexts :
          /\ response' = [response EXCEPT ![r] = [has_text |-> TRUE, text |-> t]]
          /\ QueryAnswer(r)
     \/ \* response.text is None: line 258 raises TypeError inside the try
        /\ response' = [response EXCEPT ![r] = [has_text |-> FALSE, text |-> <<>>]]
        /\ QueryExcept(r, NoneTypeMsg)
     \/ \* generate_content raises; response is not assigned
        /\ UNCHANGED response
        /\ \E e \in ErrorTexts : QueryExcept(r, e)
  /\ UNCHANGED <<store_name, backend_store, candidates, grounding_metadata, norm_pc, live, kind, attempt, retry_delay, operation, tmp_exists,
                 doneIndex, metadata, calls, fetches, submits>>

\* lines 324-326 with the mutation: the sleeping handler is resumed only from
\* inside a backend call of its own, which it is not in
QueryWake_NeverResumed(r) ==
  /\ running = r
  /\ kind[r] = "query"
  /\ pc[r] = "sleep"
  /\ retry_delay' = [retry_delay EXCEPT ![r] = NextDelay(@)]
  /\ QueryLoopHead(r, attempt[r] + 1)
  /\ UNCHANGED <<store_name, backend_store, candidates, grounding_metadata, norm_pc, live, running, kind,
                 error_str, operation, tmp_exists, doneIndex, metadata, calls,
                 fetches, submits, sleeps, response, hist>>

\* lines 324-326 with the mutation: retry_delay is one module-level value,
\* doubled for every request at once
QueryWake_SharedDelay(r) ==
  /\ running = 0
  /\ kind[r] = "query"
  /\ pc[r] = "sleep"
  /\ retry_delay' = [q \in Requests |-> NextDelay(retry_delay[q])]
  /\ QueryLoopHead(r, attempt[r] + 1)
  /\ UNCHANGED <<store_name, backend_store, candidates, grounding_metadata, norm_pc, live, running, kind,
                 error_str, operation, tmp_exists, doneIndex, metadata, calls,
                 fetches, submits, sleeps, response, hist>>

\* lines 324-326: the sleep ends, the delay is doubled, continue
QueryWake(r) ==
  /\ running = 0
  /\ kind[r] = "query"
  /\ pc[r] = "sleep"
  /\ retry_delay' = [retry_delay EXCEPT ![r] = NextDelay(@)]
  /\ QueryLoopHead(r, attempt[r] + 1)
  /\ UNCHANGED <<store_name, backend_store, candidates, grounding_metadata, norm_pc, live, running, kind, error_str, operation, tmp_exists,
                 doneIndex, metadata, calls, fetches, submits, sleeps, response, hist>>

(* ------------------- upload_file and wait_for_operation ---------------- *)

\* lines 1-14, 20, 35, 38: the names bound at module scope when a handler runs
\* (the function and class names of the module included)
ModuleGlobals ==
  { "os", "time", "traceback", "Optional", "List", "FastAPI", "UploadFile",
    "File", "HTTPException", "Form", "CORSMiddleware", "StaticFiles",
    "FileResponse", "BaseModel", "load_dotenv", "genai", "types", "tempfile",
    "json", "api_key", "client", "app", "CreateStoreRequest", "QueryRequest",
    "MetadataItem", "UploadFileRequest", "wait_for_operation", "read_root",
    "create_store", "list_stores", "delete_store", "upload_file",
    "query_documents", "list_documents" }

\* whether the name asyncio resolves where the poll loop of handler k sleeps:
\* upload_file binds it locally (line 196), wait_for_operation reads the global
AsyncioBound(k) ==
  IF k = "upload" THEN TRUE ELSE "asyncio" \in ModuleGlobals

\* lines 197 and 74: max_attempts of the two poll loops
MaxAttemptsOf(k) == IF k = "upload" THEN max_attempts ELSE helper_max_attempts

\* lines 200 / 77: while not operation.done and attempt < max_attempts
ShouldPoll(k, done, a) == ~done /\ a < MaxAttemptsOf(k)

\* lines 205 / 82 with the mutation: the check after the loop is missing
PollTimedOut_Never(done) == FALSE

\* lines 205 / 82: if not operation.done
PollTimedOut(done) == ~done

TimeoutDetail(k) ==
  IF k = "upload" THEN <<"Upload operation timed out">>
  ELSE <<"Operation timed out">>

\* lines 217-220: the finally block; the value is whether the file exists after
InnerFinally(exists) == FALSE

\* lines 222-223: except Exception as e: raise HTTPException(500, ...)
OuterExcept(e) == HTTPException(500, <<"Failed to upload file: ">> \o e.body)

\* an exception e leaves the poll loop or a later step of handler k:
\* upload_file runs its finally and its outer except, the helper propagates e
RaiseInside(r, e, why) ==
  IF kind'[r] = "upload"
  THEN /\ tmp_exists' = [tmp_exists EXCEPT ![r] = InnerFinally(@)]
       /\ Finish(r, OuterExcept(e), why)
  ELSE /\ UNCHANGED tmp_exists
       /\ Finish(r, e, why)

\* lines 208-215 (then the finally block) / line 85: the operation is returned
ReturnOperation(r) ==
  /\ IF kind'[r] = "upload"
     THEN tmp_exists' = [tmp_exists EXCEPT ![r] = InnerFinally(@)]
     ELSE UNCHANGED tmp_exists
  /\ Finish(r, [status |-> 200, success |-> TRUE,
                body |-> IF kind'[r] = "upload"
                         THEN <<"File uploaded and indexed successfully">>
                         ELSE <<>>,
                exc |-> "none"], "success")

\* lines 200-215 / 77-85: the loop test with the operation status done and the
\* counter a, up to the next suspension point or the end of the handler
PollLoop(r, done, a) ==
  IF ShouldPoll(kind'[r], done, a)
  THEN IF AsyncioBound(kind'[r])
       THEN \* await asyncio.sleep(5)
            /\ sleeps' = [sleeps EXCEPT ![r] = Append(@, poll_interval)]
            /\ UNCHANGED tmp_exists
            /\ Goto(r, "sleep")
       ELSE \* the name asyncio is not defined
            /\ UNCHANGED sleeps
            /\ RaiseInside(r, OtherException("NameError",
                               <<"name 'asyncio' is not defined">>), "nameerror")
  ELSE /\ UNCHANGED sleeps
       /\ IF PollTimedOut(done)
          THEN RaiseInside(r, HTTPException(408, TimeoutDetail(kind'[r])), "timeout")
          ELSE ReturnOperation(r)

\* the statuses the backend may give a new operation: done from fetch k on
DoneIndexes == 0..(max_attempts + PollSlack)

\* lines 150-163: the request arrives, the temporary file is created
\* (delete=False) and the handler awaits file.read()
UploadStart(r) ==
  /\ r \in live
  /\ running = 0
  /\ kind[r] = "none"
  /\ kind' = [kind EXCEPT ![r] = "upload"]
  /\ \E md \in {"absent", "valid", "malformed"} :
       metadata' = [metadata EXCEPT ![r] = md]
  /\ \/ \* file.filename is None: os.path.splitext raises before the file exists
        /\ UNCHANGED tmp_exists
        /\ Finish(r, OuterExcept(OtherException("TypeError", <<"splitext">>)),
                  "filename")
     \/ /\ tmp_exists' = [tmp_exists EXCEPT ![r] = TRUE]
        /\ Goto(r, "read")
  /\ UNCHANGED <<store_name, backend_store, candidates, grounding_metadata, norm_pc, live, running, attempt, retry_delay, error_str, operation,
                 doneIndex, calls, fetches, submits, sleeps, response, hist>>

\* lines 163-193: file.read() returns or raises, the bytes are written, the
\* metadata is parsed, and the synchronous submission call starts
UploadStage(r) ==
  /\ running = 0
  /\ kind[r] = "upload"
  /\ pc[r] = "read"
  /\ \/ \* file.read() raises: the with block closes the file and does not
        \* delete it; the inner try was not entered
        /\ Finish(r, OuterExcept(OtherException("Exception", <<"read">>)), "read")
        /\ UNCHANGED <<running, tmp_exists, submits, backend_store>>
     \/ \* tmp_file.write raises
        /\ Finish(r, OuterExcept(OtherException("OSError", <<"write">>)), "write")
        /\ UNCHANGED <<running, tmp_exists, submits, backend_store>>
     \/ \* line 171: json.loads raises inside the inner try
        /\ metadata[r] = "malformed"
        /\ tmp_exists' = [tmp_exists EXCEPT ![r] = InnerFinally(@)]
        /\ Finish(r, OuterExcept(OtherException("JSONDecodeError", <<"metadata">>)),
                  "malformed")
        /\ UNCHANGED <<running, submits, backend_store>>
     \/ \* lines 189-193: upload_to_file_search_store is called
        /\ metadata[r] # "malformed"
        /\ running' = r
        /\ submits' = [submits EXCEPT ![r] = @ + 1]
        \* line 191: file_search_store_name=store_name
        /\ backend_store' = [backend_store EXCEPT ![r] = Some(store_name[r])]
        /\ Goto(r, "in_submit")
        /\ UNCHANGED tmp_exists
  /\ UNCHANGED <<store_name, candidates, grounding_metadata, norm_pc, live, kind, attempt, retry_delay, error_str, operation,
                 doneIndex, metadata, calls, fetches, sleeps, response, hist>>

\* lines 189-206: the submission returns an operation or raises; the poll loop
\* is entered
UploadSubmitReturn(r) ==
  /\ running = r
  /\ kind[r] = "upload"
  /\ pc[r] = "in_submit"
  /\ running' = 0
  /\ UNCHANGED kind
  /\ \/ /\ RaiseInside(r, OtherException("Exception", <<"submit">>), "backend")
        /\ UNCHANGED <<operation, doneIndex, attempt, sleeps>>
     \/ \E k \in DoneIndexes :
          /\ doneIndex' = [doneIndex EXCEPT ![r] = k]
          /\ operation' = [operation EXCEPT ![r] = [done |-> k = 0]]
          /\ attempt' = [attempt EXCEPT ![r] = 0]
          /\ PollLoop(r, k = 0, 0)
  /\ UNCHANGED <<store_name, backend_store, candidates, grounding_metadata, norm_pc, live, retry_delay, error_str, metadata, calls, fetches,
                 submits, response, hist>>

\* lines 201-202: the sleep ends and client.operations.get is called
PollWake(r) ==
  /\ running = 0
  /\ kind[r] \in {"upload", "wait"}
  /\ pc[r] = "sleep"
  /\ running' = r
  /\ fetches' = [fetches EXCEPT ![r] = @ + 1]
  /\ Goto(r, "in_fetch")
  /\ UNCHANGED <<store_name, backend_store, candidates, grounding_metadata, norm_pc, live, kind, attempt, retry_delay, error_str, operation,
                 tmp_exists, doneIndex, metadata, calls, submits, sleeps, response, hist>>

\* lines 202-206: the status fetch returns or raises; attempt += 1; loop test
PollFetchReturn(r) ==
  /\ running = r
  /\ kind[r] \in {"upload", "wait"}
  /\ pc[r] = "in_fetch"
  /\ running' = 0
  /\ UNCHANGED kind
  /\ \/ /\ RaiseInside(r, OtherException("Exception", <<"fetch">>), "backend")
        /\ UNCHANGED <<operation, attempt, sleeps>>
     \/ /\ operation' = [operation EXCEPT ![r] = [done |-> fetches[r] >= doneIndex[r]]]
        /\ attempt' = [attempt EXCEPT ![r] = @ + 1]
        /\ PollLoop(r, fetches[r] >= doneIndex[r], attempt[r] + 1)
  /\ UNCHANGED <<store_name, backend_store, candidates, grounding_metadata, norm_pc, live, retry_delay, error_str, doneIndex, metadata, calls,
                 fetches, submits, response, hist>>

\* lines 72-85: wait_for_operation(operation) is called with an operation the
\* backend completes at status fetch k
WaitForOperation(r) ==
  /\ r \in live
  /\ running = 0
  /\ kind[r] = "none"
  /\ kind' = [kind EXCEPT ![r] = "wait"]
  /\ \E k \in DoneIndexes :
       /\ doneIndex' = [doneIndex EXCEPT ![r] = k]
       /\ operation' = [operation EXCEPT ![r] = [done |-> k = 0]]
       /\ attempt' = [attempt EXCEPT ![r] = 0]
       /\ PollLoop(r, k = 0, 0)
  /\ UNCHANGED <<store_name, backend_store, candidates, grounding_metadata, norm_pc, live, running, retry_delay, error_str, metadata, calls,
                 fetches, submits, response, hist>>

(* ------------------- delete_store and list_documents ------------------ *)

\* str.startswith
StartsWith(s, p) == Len(s) >= Len(p) /\ SubSeq(s, 1, Len(p)) = p

\* lines 143 / 345: f"fileSearchStores/{store_id}" if not
\* store_id.startswith("fileSearchStores/") else store_id
PrefixedStoreName(store_id) ==
  IF ~StartsWith(store_id, StorePrefix) THEN StorePrefix \o store_id ELSE store_id

\* the store identifiers a request may carry: bare, prefixed, or with the
\* prefix text somewhere behind the start
StoreIds ==
  { p \o [i \in 1..n |-> "s"] :
      p \in {<<>>, StorePrefix, <<"x">> \o StorePrefix}, n \in 1..MaxStoreIdLen }

\* lines 139-144: the request arrives and client.file_search_stores.delete is
\* called with the prefixed name
DeleteStart(r) ==
  /\ r \in live
  /\ running = 0
  /\ kind[r] = "none"
  /\ kind' = [kind EXCEPT ![r] = "delete"]
  /\ running' = r
  /\ backend_store' = [backend_store EXCEPT ![r] = Some(PrefixedStoreName(store_name[r]))]
  /\ Goto(r, "in_delete")
  /\ UNCHANGED <<store_name, candidates, grounding_metadata, norm_pc, live,
                 attempt, retry_delay, error_str, operation, tmp_exists,
                 doneIndex, metadata, calls, fetches, submits, sleeps,
                 response, hist>>

\* lines 144-147: the delete call returns or raises
DeleteReturn(r) ==
  /\ running = r
  /\ kind[r] = "delete"
  /\ pc[r] = "in_delete"
  /\ running' = 0
  /\ \/ Finish(r, [status |-> 200, success |-> TRUE,
                   body |-> <<"Store deleted successfully">>, exc |-> "none"],
               "success")
     \/ Finish(r, HTTPException(500, <<"Failed to delete store: ", "delete">>),
               "backend")
  /\ UNCHANGED <<store_name, backend_store, candidates, grounding_metadata,
                 norm_pc, live, kind, attempt, retry_delay, error_str, operation,
                 tmp_exists, doneIndex, metadata, calls, fetches, submits,
                 sleeps, response, hist>>

\* lines 341-354: the prefixed name is computed and not used; no backend call
\* is made and an empty document list is returned
ListDocuments(r) ==
  /\ r \in live
  /\ running = 0
  /\ kind[r] = "none"
  /\ kind' = [kind EXCEPT ![r] = "list"]
  /\ Finish(r, [status |-> 200, success |-> TRUE,
                body |-> <<"Document listing may require additional API methods">>,
                exc |-> "none"], "success")
  /\ UNCHANGED <<store_name, backend_store, candidates, grounding_metadata,
                 norm_pc, live, running, attempt, retry_delay, error_str,
                 operation, tmp_exists, doneIndex, metadata, calls, fetches,
                 submits, sleeps, response, hist>>

(* -------------- query_documents: the citation extraction --------------- *)

\* A Python object is a record of its attributes (hasattr is membership in the
\* DOMAIN), an attribute value is None or Some(v), a dict is a record of its
\* keys.

EmptyDict == [k \in {} |-> None]

\* x.f if hasattr(x, 'f') else None
Attr(x, f) == IF f \in DOMAIN x THEN x[f] ELSE None

\* hasattr(x, 'f') and x.f, for an attribute that holds an object
TruthyObject(x, f) == f \in DOMAIN x /\ x[f] # None

\* the same with the mutation: the test is  is not None, an empty list passes
TruthyList_NotNone(x, f) == f \in DOMAIN x /\ x[f] # None

\* hasattr(x, 'f') and x.f, for an attribute that holds a list
TruthyList(x, f) == f \in DOMAIN x /\ x[f] # None /\ x[f][1] # <<>>

\* lines 285 / 303 with the mutation: the entry is appended without the test
KeepEntry_Always(d) == TRUE

\* lines 285 / 303: if chunk_data / if support_data
KeepEntry(d) == DOMAIN d # {}

\* lines 273-284: chunk_data of one raw chunk
ChunkData(chunk) ==
  (IF TruthyObject(chunk, "web")
   THEN [web |-> [uri |-> Attr(chunk.web[1], "uri"),
                  title |-> Attr(chunk.web[1], "title")]]
   ELSE EmptyDict)
  @@
  (IF TruthyObject(chunk, "retrieved_context")
   THEN [retrieved_context |->
           [uri |-> Attr(chunk.retrieved_context[1], "uri"),
            title |-> Attr(chunk.retrieved_context[1], "title"),
            text |-> Attr(chunk.retrieved_context[1], "text")]]
   ELSE EmptyDict)

\* lines 292-302: support_data of one raw support
SupportData(support) ==
  (IF TruthyObject(support, "segment")
   THEN [segment |-> [start_index |-> Attr(support.segment[1], "start_index"),
                      end_index |-> Attr(support.segment[1], "end_index"),
                      text |-> Attr(support.segment[1], "text")]]
   ELSE EmptyDict)
  @@
  (IF TruthyList(support, "grounding_chunk_indices")
   THEN [grounding_chunk_indices |-> support.grounding_chunk_indices[1]]
   ELSE EmptyDict)
  @@
  (IF TruthyList(support, "confidence_scores")
   THEN [confidence_scores |-> support.confidence_scores[1]]
   ELSE EmptyDict)

RECURSIVE ChunkLoop(_)
\* lines 272-286: the loop over the raw chunks, appending in order
ChunkLoop(chunks) ==
  IF chunks = <<>> THEN <<>>
  ELSE (IF KeepEntry(ChunkData(Head(chunks)))
        THEN <<ChunkData(Head(chunks))>> ELSE <<>>) \o ChunkLoop(Tail(chunks))

RECURSIVE SupportLoop(_)
\* lines 291-304: the loop over the raw supports, appending in order
SupportLoop(supports) ==
  IF supports = <<>> THEN <<>>
  ELSE (IF KeepEntry(SupportData(Head(supports)))
        THEN <<SupportData(Head(supports))>> ELSE <<>>) \o SupportLoop(Tail(supports))

\* line 289 with the mutation: the field is written only when a support stays
HasSupports_IfAnyKept(gm) ==
  TruthyList(gm, "grounding_supports") /\ SupportLoop(gm.grounding_supports[1]) # <<>>

\* line 289: hasattr(..., 'grounding_supports') and ....grounding_supports
HasSupports(gm) == TruthyList(gm, "grounding_supports")

\* lines 266-304: the dict built from a grounding metadata object gm
GroundingDict(gm) ==
  [grounding_chunks |->
     IF TruthyList(gm, "grounding_chunks")
     THEN ChunkLoop(gm.grounding_chunks[1]) ELSE <<>>]
  @@
  (IF HasSupports(gm)
   THEN [grounding_supports |-> SupportLoop(gm.grounding_supports[1])]
   ELSE EmptyDict)

\* lines 261-304: grounding_metadata computed from response.candidates c
ExtractGrounding(c) ==
  IF c # None /\ Len(c[1]) > 0
  THEN IF TruthyObject(c[1][1], "grounding_metadata")
       THEN Some(GroundingDict(c[1][1].grounding_metadata[1]))
       ELSE None
  ELSE None

(* the raw candidates the backend may return *)

\* the records with the attribute f holding one of vals, or without it
OptAttr(f, vals) == {EmptyDict} \cup { [k \in {f} |-> v] : v \in vals }

\* the records with the attribute f holding one of vals
ReqAttr(f, vals) == { [k \in {f} |-> v] : v \in vals }

Join(A, B) == { a @@ b : a \in A, b \in B }

SeqsUpTo(S, n) == UNION { [1..k -> S] : k \in 0..n }

RawWebs ==
  { [title |-> None],
    [uri |-> Some("u"), title |-> Some("t")] }

RawContexts ==
  { [uri |-> None, title |-> None, text |-> Some("Paris is the capital")] }

RawChunks ==
  Join(OptAttr("web", {None} \cup { Some(w) : w \in RawWebs }),
       ReqAttr("retrieved_context", {None} \cup { Some(x) : x \in RawContexts }))

RawSegments ==
  { [start_index |-> Some(0), end_index |-> None, text |-> Some("Paris")] }

RawSupports ==
  Join(ReqAttr("segment", {None} \cup { Some(g) : g \in RawSegments }),
       Join(ReqAttr("grounding_chunk_indices", {Some(<<>>), Some(<<0, 1>>)}),
            OptAttr("confidence_scores", {Some(<<9>>)})))

\* a few chunk lists and support lists, for the runs that vary the other list
FewChunkLists == { <<>>, <<[retrieved_context |-> None]>> }

FewSupportLists ==
  { <<>>, <<[grounding_chunk_indices |-> None, confidence_scores |-> Some(<<>>)]>> }

\* the grounding metadata objects: one of the two lists is varied in full
RawGroundings ==
  Join(OptAttr("grounding_chunks",
               {None} \cup { Some(q) : q \in SeqsUpTo(RawChunks, MaxChunks) }),
       OptAttr("grounding_supports",
               {None} \cup { Some(q) : q \in FewSupportLists }))
  \cup
  Join(OptAttr("grounding_chunks",
               {None} \cup { Some(q) : q \in FewChunkLists }),
       OptAttr("grounding_supports",
               {None} \cup { Some(q) : q \in SeqsUpTo(RawSupports, MaxSupports) }))

RawCandidate ==
  OptAttr("grounding_metadata", {None} \cup { Some(g) : g \in RawGroundings })

\* response.candidates: None, empty, one candidate, or a second one behind it
RawCandidateLists ==
  {None, Some(<<>>)}
  \cup { Some(<<c>>) : c \in RawCandidate }
  \cup { Some(<<c, EmptyDict>>) : c \in RawCandidate }

\* a response arrives whose candidates are any of the raw candidate lists
InitNorm ==
  /\ RequestInit({})
  /\ StoreDefault
  /\ candidates \in RawCandidateLists
  /\ grounding_metadata = None
  /\ norm_pc = "ready"

\* lines 261-306: the extraction runs on the response
ExtractRun ==
  /\ norm_pc = "ready"
  /\ grounding_metadata' = ExtractGrounding(candidates)
  /\ norm_pc' = "done"
  /\ UNCHANGED <<store_name, backend_store, candidates, live, running, kind, pc, attempt, retry_delay,
                 error_str, operation, tmp_exists, doneIndex, metadata, calls,
                 fetches, submits, sleeps, response, hist, cause, resp>>

NextNorm == ExtractRun

SpecNorm == InitNorm /\ [][NextNorm]_vars

(* ---------------------------- specification --------------------------- *)

Next ==
  \E r \in Requests :
    \/ QueryStart(r)
    \/ QueryCall(r)
    \/ QueryReturn(r)
    \/ QueryWake(r)
    \/ UploadStart(r)
    \/ UploadStage(r)
    \/ UploadSubmitReturn(r)
    \/ PollWake(r)
    \/ PollFetchReturn(r)
    \/ WaitForOperation(r)
    \/ DeleteStart(r)
    \/ DeleteReturn(r)
    \/ ListDocuments(r)

Spec == Init /\ [][Next]_vars

\* every backend call returns and every sleep ends: the event loop resumes a
\* handler that can go on
Fairness ==
  \A r \in Requests :
    /\ WF_vars(QueryCall(r))
    /\ WF_vars(QueryReturn(r))
    /\ WF_vars(QueryWake(r))

SpecFair == Init /\ [][Next]_vars /\ Fairness

\* one request arrives, carrying any of the store identifiers
InitStore ==
  /\ RequestInit({1})
  /\ NormIdle
  /\ store_name \in { [r \in Requests |-> id] : id \in StoreIds }

SpecStore == InitStore /\ [][Next]_vars

\* the backend's behaviours towards requests that run side by side: a call
\* raises one of two errors (one an overload, one not), an operation is done
\* within the first two status fetches
ConcErrorTexts == { Tok503, <<"u","n","a","v","a","i","l","a","b","l","e">> }

ConcDoneIndexes == 0..2

ConcInputs ==
  \A r \in Requests :
    /\ error_str'[r] \in ConcErrorTexts \cup {<<>>, NoneTypeMsg}
    /\ doneIndex'[r] \in ConcDoneIndexes

\* every request is in flight from the start
InitConc == InitWith(Requests)

\* the actions of Next, each with the backend's behaviours narrowed
NextConc ==
  \E r \in Requests :
    \/ QueryStart(r) /\ ConcInputs
    \/ QueryCall(r) /\ ConcInputs
    \/ QueryReturn(r) /\ ConcInputs
    \/ QueryWake(r) /\ ConcInputs
    \/ UploadStart(r) /\ ConcInputs
    \/ UploadStage(r) /\ ConcInputs
    \/ UploadSubmitReturn(r) /\ ConcInputs
    \/ PollWake(r) /\ ConcInputs
    \/ PollFetchReturn(r) /\ ConcInputs
    \/ WaitForOperation(r) /\ ConcInputs
    \/ DeleteStart(r) /\ ConcInputs
    \/ DeleteReturn(r) /\ ConcInputs
    \/ ListDocuments(r) /\ ConcInputs

SpecConc == InitConc /\ [][NextConc]_vars

(* ------------------------ vocabulary of the claims --------------------- *)

Last(q) == q[Len(q)]

\* the request r ran the query endpoint to its end
QueryDone(r) == kind[r] = "query" /\ pc[r] = "done"

\* the request r ran the upload endpoint to its end
UploadDone(r) == kind[r] = "upload" /\ pc[r] = "done"

\* the backoff sequence of the retry controller
BackoffSeq == <<2, 4>>

\* the token tok stands in the text s at position i
MatchesAt(tok, s, i) ==
  /\ i + Len(tok) - 1 <= Len(s)
  /\ \A j \in 1..Len(tok) : s[i + j - 1] = tok[j]

\* the text s carries the overload signal: "503", "UNAVAILABLE" in upper case,
\* or "overloaded" in any letter case
OverloadSignal(s) ==
  \E i \in 1..Len(s) :
    \/ MatchesAt(Tok503, s, i)
    \/ MatchesAt(TokUNAVAILABLE, s, i)
    \/ MatchesAt(TokOverloaded, Lower(s), i)

\* the text s carries "503", "UNAVAILABLE" or "overloaded" in any letter case
OverloadSignalAnyCase(s) ==
  \E i \in 1..Len(s) :
    \/ MatchesAt(Tok503, s, i)
    \/ MatchesAt(Lower(TokUNAVAILABLE), Lower(s), i)
    \/ MatchesAt(TokOverloaded, Lower(s), i)

\* the last backend call of the query request r ended in a failure
LastCallFailed(r) ==
  /\ kind[r] = "query"
  /\ hist[r] # <<>>
  /\ Last(hist[r]) \in {"overload", "other"}

(* -------------------------------- claims ------------------------------- *)

\* C1: a query request all of whose backend calls failed with an error the
\* controller classified as overload has made exactly 3 calls, has slept
\* exactly 2 then 4 time units, and ends with HTTP 503 and the fixed
\* "try again" message.
C1_AllOverloaded ==
  \A r \in Requests :
    (QueryDone(r) /\ hist[r] # <<>> /\ \A i \in 1..Len(hist[r]) : hist[r][i] = "overload")
      => /\ calls[r] = 3
         /\ Len(hist[r]) = 3
         /\ sleeps[r] = <<2, 4>>
         /\ resp[r] = HTTPException(503, OverloadedDetail)
         /\ resp[r].body # <<"Query failed: ">> \o error_str[r]

C1_Witness ==
  \E r \in Requests :
    QueryDone(r) /\ hist[r] = <<"overload", "overload", "overload">>

\* C2: once a backend call of a query request has failed with an error text
\* that does not carry the overload signal, the request is over with HTTP 500
\* carrying that text, no sleep and no call having followed the failure; when
\* it was the first failure exactly 1 call was made.
C2_OtherErrorFailsAtOnce ==
  \A r \in Requests :
    (LastCallFailed(r) /\ ~OverloadSignal(error_str[r]))
      => /\ pc[r] = "done"
         /\ resp[r] = HTTPException(500, <<"Query failed: ">> \o error_str[r])
         /\ calls[r] = Len(hist[r])
         /\ Len(sleeps[r]) = Len(hist[r]) - 1
         /\ \A i \in 1..(Len(hist[r]) - 1) : hist[r][i] = "overload"
         /\ (Len(hist[r]) = 1 => calls[r] = 1 /\ sleeps[r] = <<>>)

C2_Witness ==
  \E r \in Requests :
    /\ QueryDone(r)
    /\ hist[r] = <<"overload", "other">>
    /\ error_str[r] \in ErrorTexts
    /\ resp[r].status = 500

\* C3: a query request whose first answer came from attempt j, after j-1
\* overload failures, has slept exactly the first j-1 values of 2, 4, has made
\* exactly j calls, and ends with success = true and the text of attempt j.
C3_SuccessAtAttemptJ ==
  \A r \in Requests :
    (kind[r] = "query" /\ hist[r] # <<>> /\ Last(hist[r]) = "answer")
      => /\ pc[r] = "done"
         /\ Len(hist[r]) \in 1..3
         /\ \A i \in 1..(Len(hist[r]) - 1) : hist[r][i] = "overload"
         /\ sleeps[r] = SubSeq(BackoffSeq, 1, Len(hist[r]) - 1)
         /\ calls[r] = Len(hist[r])
         /\ resp[r].success
         /\ resp[r].status = 200
         /\ response[r].has_text
         /\ resp[r].body = response[r].text

C3_Witness ==
  \E r \in Requests :
    /\ QueryDone(r)
    /\ hist[r] = <<"overload", "answer">>
    /\ sleeps[r] = <<2>>
    /\ resp[r].success
    /\ resp[r].body # <<>>

\* C4: a query request starts at most 3 backend calls, and a call is in
\* progress for it only while it waits in that call: every earlier call of
\* the request has returned or failed before the next one starts.
C4_AtMostThreeSequentialCalls ==
  \A r \in Requests :
    kind[r] = "query"
      => /\ calls[r] <= 3
         /\ calls[r] - Len(hist[r]) = (IF pc[r] = "in_call" THEN 1 ELSE 0)
         /\ (pc[r] = "in_call" => running = r)
         /\ (pc[r] = "call" => calls[r] = Len(hist[r]))

C4_Witness ==
  \E r \in Requests :
    kind[r] = "query" /\ pc[r] = "in_call" /\ calls[r] = 3 /\ Len(hist[r]) = 2

\* C5 as stated: a failure is classified as overload exactly when its text
\* contains "503", "UNAVAILABLE" or "overloaded" in any letter case.
C5_Original ==
  \A r \in Requests :
    LastCallFailed(r)
      => (Last(hist[r]) = "overload" <=> OverloadSignalAnyCase(error_str[r]))

\* C5 as amended: a failure is classified as overload (retried, or ended with
\* HTTP 503) exactly when its text contains "503", "UNAVAILABLE" in upper case,
\* or "overloaded" in any letter case; otherwise it ends with HTTP 500.
C5_Amended ==
  \A r \in Requests :
    LastCallFailed(r)
      => /\ Last(hist[r]) = "overload" <=> OverloadSignal(error_str[r])
         /\ OverloadSignal(error_str[r])
              => (pc[r] # "done" \/ resp[r].status = 503)
         /\ ~OverloadSignal(error_str[r])
              => (pc[r] = "done" /\ resp[r].status = 500)

C5_Witness ==
  \E r \in Requests :
    /\ QueryDone(r)
    /\ Contains(Lower(TokUNAVAILABLE), error_str[r])
    /\ Last(hist[r]) = "other"
    /\ resp[r].status = 500

\* the poller of request r (the loop of upload_file or wait_for_operation) was
\* entered and no backend call of it raised: the request is over through the
\* poller alone
PollerEnded(r) ==
  /\ kind[r] \in {"upload", "wait"}
  /\ pc[r] = "done"
  /\ cause[r] \in {"success", "timeout", "nameerror"}

\* the sleeps of a poller that fetched the status n times
PollSleeps(n) == [i \in 1..n |-> 5]

\* C6: when the backend first reports done at poll index k, 0 <= k <= 60, the
\* poller ends in success with the done operation after exactly k status
\* fetches, each preceded by one sleep of 5 units. Stated of both pollers of
\* the source.
C6_PollerReturnsAtK ==
  \A r \in Requests :
    (PollerEnded(r) /\ doneIndex[r] <= 60)
      => /\ resp[r].success
         /\ operation[r].done
         /\ fetches[r] = doneIndex[r]
         /\ sleeps[r] = PollSleeps(doneIndex[r])

\* C6 restricted to the poll loop of upload_file (lines 196-215)
C6_UploadLoopReturnsAtK ==
  \A r \in Requests :
    (PollerEnded(r) /\ kind[r] = "upload" /\ doneIndex[r] <= 60)
      => /\ cause[r] = "success"
         /\ resp[r].success
         /\ operation[r].done
         /\ fetches[r] = doneIndex[r]
         /\ attempt[r] = doneIndex[r]
         /\ sleeps[r] = PollSleeps(doneIndex[r])

C6_UploadLoopWitness ==
  \E r \in Requests :
    PollerEnded(r) /\ kind[r] = "upload" /\ doneIndex[r] = 60 /\ resp[r].success

\* C7: when the backend never reports done, the poller makes exactly 60
\* status fetches and then fails with the timeout error; it never returns the
\* operation that is not done, and no poller ever makes a 61st fetch. Stated
\* of both pollers of the source.
C7_PollerTimesOut ==
  \A r \in Requests :
    /\ fetches[r] <= 60
    /\ (PollerEnded(r) /\ doneIndex[r] > 60)
         => /\ fetches[r] = 60
            /\ cause[r] = "timeout"
            /\ ~resp[r].success
            /\ ~operation[r].done

\* C7 restricted to the poll loop of upload_file (lines 196-215)
C7_UploadLoopTimesOut ==
  \A r \in Requests :
    /\ fetches[r] <= 60
    /\ (PollerEnded(r) /\ kind[r] = "upload" /\ doneIndex[r] > 60)
         => /\ fetches[r] = 60
            /\ sleeps[r] = PollSleeps(60)
            /\ cause[r] = "timeout"
            /\ ~resp[r].success
            /\ ~operation[r].done

C7_UploadLoopWitness ==
  \E r \in Requests :
    PollerEnded(r) /\ kind[r] = "upload" /\ doneIndex[r] > 60 /\ fetches[r] = 60

\* C8: an upload whose operation is still not done when the poll budget is
\* exhausted is answered with HTTP 408, and HTTP 500 answers only the other
\* failures.
C8_TimeoutIs408 ==
  \A r \in Requests :
    UploadDone(r)
      => /\ (cause[r] = "timeout" => resp[r].status = 408)
         /\ (resp[r].status = 500 => cause[r] # "timeout")

\* C9: when an upload request is over, however it ended, its temporary file
\* no longer exists.
C9_TempFileRemoved ==
  \A r \in Requests : UploadDone(r) => ~tmp_exists[r]

\* C9 restricted to the outcomes reached after the inner try was entered
C9_TempFileRemovedAfterStaging ==
  \A r \in Requests :
    (UploadDone(r) /\ cause[r] \notin {"read", "write"}) => ~tmp_exists[r]

\* C10: an upload ends with success = true only if the last fetched operation
\* is done, a query ends with success = true only if a backend call returned
\* an answer, which it carries; every other run of the two endpoints ends with
\* an HTTP failure of status 408, 503 or 500.
C10_NoFalseSuccess ==
  \A r \in Requests :
    (pc[r] = "done" /\ kind[r] \in {"upload", "query"})
      => /\ (kind[r] = "upload" /\ resp[r].success)
              => (operation[r].done /\ cause[r] = "success")
         /\ (kind[r] = "query" /\ resp[r].success)
              => /\ Last(hist[r]) = "answer"
                 /\ response[r].has_text
                 /\ resp[r].body = response[r].text
         /\ ~resp[r].success
              => /\ resp[r].exc = "HTTPException"
                 /\ resp[r].status \in {408, 503, 500}
                 /\ cause[r] # "success"

C10_Witness ==
  \E r \in Requests :
    /\ UploadDone(r)
    /\ cause[r] = "timeout"
    /\ ~operation[r].done
    /\ ~resp[r].success
    /\ resp[r].status = 500

(* ------------------- claims on the citation extraction ----------------- *)

\* the extraction has run on the response
Extracted == norm_pc = "done"

\* the first candidate exists and carries a grounding metadata object
HasGrounding(c) ==
  /\ c # None
  /\ Len(c[1]) > 0
  /\ "grounding_metadata" \in DOMAIN c[1][1]
  /\ c[1][1].grounding_metadata # None

\* the raw list held by the attribute f of the grounding metadata object of c
\* (empty when the attribute is missing or None)
RawList(c, f) ==
  IF f \in DOMAIN c[1][1].grounding_metadata[1]
     /\ c[1][1].grounding_metadata[1][f] # None
  THEN c[1][1].grounding_metadata[1][f][1]
  ELSE <<>>

\* the raw chunk has a web or a retrievedContext field
ChunkHasSource(chunk) ==
  \/ ("web" \in DOMAIN chunk /\ chunk.web # None)
  \/ ("retrieved_context" \in DOMAIN chunk /\ chunk.retrieved_context # None)

\* the attribute f of x holds a list that is not empty
NonEmptyList(x, f) == f \in DOMAIN x /\ x[f] # None /\ Len(x[f][1]) > 0

\* the raw support has a segment, chunk indices or confidence scores
SupportHasField(support) ==
  \/ ("segment" \in DOMAIN support /\ support.segment # None)
  \/ NonEmptyList(support, "grounding_chunk_indices")
  \/ NonEmptyList(support, "confidence_scores")

\* the supports of a normalized dict d (none when the field is not there)
OutSupports(d) ==
  IF "grounding_supports" \in DOMAIN d THEN d.grounding_supports ELSE <<>>

KeptChunks(c) == SelectSeq(RawList(c, "grounding_chunks"), ChunkHasSource)

KeptSupports(c) == SelectSeq(RawList(c, "grounding_supports"), SupportHasField)

\* C11: without grounding metadata the result is None; otherwise the output
\* chunks are exactly the raw chunks that have a web or retrievedContext
\* field, and the output supports exactly the raw supports that have a
\* segment, non-empty chunk indices or non-empty scores, each extracted, in
\* input order, the other entries being dropped.
C11_KeptEntriesInOrder ==
  Extracted =>
    IF ~HasGrounding(candidates)
    THEN grounding_metadata = None
    ELSE /\ grounding_metadata # None
         /\ LET d == grounding_metadata[1]
                kc == KeptChunks(candidates)
                ks == KeptSupports(candidates)
            IN /\ Len(d.grounding_chunks) = Len(kc)
               /\ \A i \in 1..Len(kc) : d.grounding_chunks[i] = ChunkData(kc[i])
               /\ Len(OutSupports(d)) = Len(ks)
               /\ \A i \in 1..Len(ks) : OutSupports(d)[i] = SupportData(ks[i])

\* a chunk without any field stood between two chunks that were kept
C11_Witness ==
  /\ Extracted
  /\ HasGrounding(candidates)
  /\ Len(RawList(candidates, "grounding_chunks")) = 2
  /\ ~ChunkHasSource(RawList(candidates, "grounding_chunks")[1])
  /\ ChunkHasSource(RawList(candidates, "grounding_chunks")[2])
  /\ Len(grounding_metadata[1].grounding_chunks) = 1

\* the keys of a normalized entry that hold a dict of sub-fields
DictKeys == {"web", "retrieved_context", "segment"}

\* the entries of the normalized chunks and supports
OutEntries ==
  IF grounding_metadata = None THEN {}
  ELSE { grounding_metadata[1].grounding_chunks[i] :
           i \in 1..Len(grounding_metadata[1].grounding_chunks) }
       \cup
       { OutSupports(grounding_metadata[1])[i] :
           i \in 1..Len(OutSupports(grounding_metadata[1])) }

\* C12 as stated: no normalized entry is an empty object, every entry has a
\* field that is not null, and no sub-field of a present web, retrievedContext
\* or segment is emitted as null.
C12_Original ==
  Extracted =>
    \A e \in OutEntries :
      /\ DOMAIN e # {}
      /\ \A k \in DOMAIN e \cap DictKeys : \A f \in DOMAIN e[k] : e[k][f] # None

\* C12 as amended: no normalized entry is an empty object; web,
\* retrieved_context, segment, grounding_chunk_indices and confidence_scores
\* are omitted when absent or empty and are never null; a present web carries
\* exactly uri and title, a present retrieved_context exactly uri, title and
\* text, a present segment exactly start_index, end_index and text, each
\* holding the raw value or null.
C12_Amended ==
  Extracted =>
    \A e \in OutEntries :
      /\ DOMAIN e # {}
      /\ \/ DOMAIN e \subseteq {"web", "retrieved_context"}
         \/ DOMAIN e \subseteq {"segment", "grounding_chunk_indices", "confidence_scores"}
      /\ "web" \in DOMAIN e => DOMAIN e.web = {"uri", "title"}
      /\ "retrieved_context" \in DOMAIN e
           => DOMAIN e.retrieved_context = {"uri", "title", "text"}
      /\ "segment" \in DOMAIN e
           => DOMAIN e.segment = {"start_index", "end_index", "text"}
      /\ \A k \in DOMAIN e \cap DictKeys :
           \A f \in DOMAIN e[k] : e[k][f] = None \/ Len(e[k][f]) = 1
      /\ \A k \in DOMAIN e \ DictKeys : Len(e[k]) > 0

\* an entry was emitted whose only field holds nothing but nulls
C12_Witness ==
  /\ Extracted
  /\ \E e \in OutEntries :
       /\ DOMAIN e = {"web"}
       /\ e.web = [uri |-> None, title |-> None]

\* C18: when grounding metadata is present the output has a grounding_chunks
\* sequence, and it has a grounding_supports field exactly when the raw
\* container's grounding_supports is present and not empty, also when every
\* raw support was dropped.
C18_SupportsFieldIffRawNonEmpty ==
  (Extracted /\ HasGrounding(candidates)) =>
    /\ grounding_metadata # None
    /\ "grounding_chunks" \in DOMAIN grounding_metadata[1]
    /\ DOMAIN grounding_metadata[1] \subseteq {"grounding_chunks", "grounding_supports"}
    /\ "grounding_supports" \in DOMAIN grounding_metadata[1]
         <=> NonEmptyList(candidates[1][1].grounding_metadata[1], "grounding_supports")

\* every raw support was dropped and the field is there, empty
C18_Witness ==
  /\ Extracted
  /\ HasGrounding(candidates)
  /\ Len(RawList(candidates, "grounding_supports")) = 2
  /\ "grounding_supports" \in DOMAIN grounding_metadata[1]
  /\ grounding_metadata[1].grounding_supports = <<>>
  /\ grounding_metadata[1].grounding_chunks = <<>>

(* ------------------ further claims on the two endpoints ---------------- *)

\* the outcome of a finished query request is a success that carries the
\* answer of a backend call, or an HTTP failure
QueryOutcomeOk(r) ==
  /\ QueryDone(r)
  /\ resp[r].success
       => (response[r].has_text /\ resp[r].body = response[r].text
           /\ Last(hist[r]) = "answer")
  /\ ~resp[r].success
       => (resp[r].exc = "HTTPException" /\ resp[r].status \in {500, 503})

\* C16: when every backend call and every sleep returns, every query request
\* reaches its end, and the end is a success carrying an answer or an explicit
\* failure.
C16_QueryTerminates ==
  \A r \in Requests : [](kind[r] = "query" => <>QueryOutcomeOk(r))

\* a request ended after it had slept twice
C16_Witness ==
  \E r \in Requests :
    QueryOutcomeOk(r) /\ Len(sleeps[r]) = 2 /\ cause[r] = "generic"

\* the retries a query request has completed: its sleeps that have ended
RetriesDone(r) == Len(sleeps[r]) - (IF pc[r] = "sleep" THEN 1 ELSE 0)

\* C17: the backoff delay of a query request is 2 * 2^n after n completed
\* overload retries: it starts at 2 and never exceeds 8.
C17_DelayDoubles ==
  \A r \in Requests :
    kind[r] = "query"
      => /\ retry_delay[r] = 2 * 2^RetriesDone(r)
         /\ RetriesDone(r) = attempt[r]
         /\ retry_delay[r] <= 8

C17_Witness ==
  \E r \in Requests :
    kind[r] = "query" /\ RetriesDone(r) = 2 /\ retry_delay[r] = 8 /\ pc[r] = "call"

\* C19 as stated: an upload with malformed metadata ends with a failure, with
\* no document submission and no status fetch made, and with its temporary
\* file removed.
C19_MalformedFailsCleanly ==
  \A r \in Requests :
    (kind[r] = "upload" /\ metadata[r] = "malformed")
      => /\ submits[r] = 0
         /\ fetches[r] = 0
         /\ pc[r] = "done" => (~resp[r].success /\ ~tmp_exists[r])

\* C19 restricted to the uploads that reached the parsing of the metadata
C19_MalformedAfterStaging ==
  \A r \in Requests :
    (kind[r] = "upload" /\ metadata[r] = "malformed")
      => /\ submits[r] = 0
         /\ fetches[r] = 0
         /\ pc[r] = "done" => ~resp[r].success
         /\ cause[r] = "malformed" => ~tmp_exists[r]

\* C20: the fallback after the retry loop is never reached: a query request
\* ends by a return or a raise inside one of the 3 iterations, and the third
\* iteration never sleeps and continues.
C20_FallbackUnreachable ==
  \A r \in Requests :
    /\ cause[r] # "fallback"
    /\ kind[r] = "query"
         => /\ attempt[r] <= 2
            /\ pc[r] = "sleep" => attempt[r] < 2
            /\ pc[r] = "done" => cause[r] \in {"success", "overloaded", "generic"}

C20_Witness ==
  \E r \in Requests :
    QueryDone(r) /\ attempt[r] = 2 /\ Len(hist[r]) = 3 /\ cause[r] = "overloaded"

(* ------------------------ claims on store names ------------------------ *)

\* the store name with the namespace prefix in front exactly once
CanonicalStoreName(id) ==
  IF Len(id) >= Len(StorePrefix)
     /\ \A i \in 1..Len(StorePrefix) : id[i] = StorePrefix[i]
  THEN id
  ELSE StorePrefix \o id

\* C15: whatever endpoint a request with a store identifier runs (delete
\* store, upload, query), the store name it gives the backend is the
\* identifier with the namespace prefix in front exactly once: added to a bare
\* identifier, left alone on a prefixed one.
C15_BackendGetsPrefixedName ==
  \A r \in Requests :
    backend_store[r] # None
      => /\ backend_store[r][1] = CanonicalStoreName(store_name[r])
         /\ StartsWith(backend_store[r][1], StorePrefix)
         /\ CanonicalStoreName(backend_store[r][1]) = backend_store[r][1]

\* C15 restricted to delete_store (line 143)
C15_DeleteStorePrefixes ==
  \A r \in Requests :
    (kind[r] = "delete" /\ backend_store[r] # None)
      => /\ backend_store[r][1] = CanonicalStoreName(store_name[r])
         /\ StartsWith(backend_store[r][1], StorePrefix)
         /\ PrefixedStoreName(backend_store[r][1]) = backend_store[r][1]

C15_DeleteStoreWitness ==
  \E r \in Requests :
    /\ kind[r] = "delete"
    /\ pc[r] = "done"
    /\ store_name[r] = <<"s">>
    /\ backend_store[r] = Some(StorePrefix \o <<"s">>)

(* ----------------------- claims on concurrency ------------------------- *)

\* the request is in flight: it has been taken up and has not ended
InFlight(r) == r \in live /\ kind[r] # "none" /\ pc[r] \notin {"idle", "done"}

\* the step moves request r along its handler
StepOf(r) == pc'[r] # pc[r] \/ kind'[r] # kind[r]

\* the retry attempt counter / poll attempt counter and the backoff delay of r
\* are left as they are
CountersUnchanged(r) ==
  /\ attempt'[r] = attempt[r]
  /\ retry_delay'[r] = retry_delay[r]

\* C13: with requests in flight side by side, under any interleaving, the
\* attempt counter (retry and poll) and the backoff delay of a request change
\* only in a step of that request, and a step of one request leaves the
\* counters and the delay of every other request unchanged.
C13_CountersAreLocal ==
  [][ \A r \in Requests :
        /\ ~CountersUnchanged(r) => StepOf(r)
        /\ StepOf(r) => \A q \in Requests \ {r} : CountersUnchanged(q) /\ ~StepOf(q)
    ]_vars

\* a retrying query and a polling upload are in flight together, each with
\* counters of its own
C13_Witness ==
  \E r, q \in Requests :
    /\ r # q
    /\ InFlight(r) /\ kind[r] = "query" /\ attempt[r] = 1 /\ retry_delay[r] = 4
    /\ InFlight(q) /\ kind[q] = "upload" /\ attempt[q] = 1 /\ fetches[q] = 1
    /\ retry_delay[q] = 0 /\ pc[q] = "sleep" /\ pc[r] = "sleep"

\* two retrying queries are in flight together at different attempts
C13_WitnessTwoQueries ==
  \E r, q \in Requests :
    /\ r # q
    /\ InFlight(r) /\ kind[r] = "query" /\ attempt[r] = 2 /\ retry_delay[r] = 8
    /\ InFlight(q) /\ kind[q] = "query" /\ attempt[q] = 0 /\ retry_delay[q] = 2

\* request r waits on a backend call (answer generation, document submission,
\* status fetch)
InBackendCall(r) ==
  InFlight(r) /\ pc[r] \in {"in_call", "in_submit", "in_fetch"}

\* request r waits in a poll sleep or a backoff sleep
InSleep(r) == InFlight(r) /\ pc[r] = "sleep"

\* the next step of request q, whichever it is
RequestStep(q) ==
  \/ QueryStart(q)
  \/ QueryCall(q)
  \/ QueryReturn(q)
  \/ QueryWake(q)
  \/ UploadStart(q)
  \/ UploadStage(q)
  \/ UploadSubmitReturn(q)
  \/ PollWake(q)
  \/ PollFetchReturn(q)
  \/ WaitForOperation(q)
  \/ DeleteStart(q)
  \/ DeleteReturn(q)
  \/ ListDocuments(q)

\* C14: while a request waits on a backend call (status fetch, document
\* submission, answer generation) or in a poll or backoff sleep, every other
\* request in flight can take its next step.
C14_WaitDoesNotBlock ==
  \A r, q \in Requests :
    (r # q /\ (InBackendCall(r) \/ InSleep(r)) /\ InFlight(q))
      => ENABLED RequestStep(q)

\* C14 restricted to the sleeps (lines 201, 324): a sleeping request blocks
\* no other request
C14_SleepDoesNotBlock ==
  \A r, q \in Requests :
    (r # q /\ InSleep(r) /\ InFlight(q) /\ running \in {0, q})
      => ENABLED RequestStep(q)

C14_SleepWitness ==
  \E r, q \in Requests :
    r # q /\ InSleep(r) /\ kind[r] = "query" /\ InBackendCall(q) /\ running = q

\* a request in a backend call with another request held up behind it
C14_BlockedWitness ==
  \E r, q \in Requests :
    /\ r # q
    /\ InBackendCall(r) /\ running = r
    /\ InFlight(q) /\ pc[q] \in {"call", "sleep", "read"}

====
